---------------------------- MODULE Spec2Model ----------------------------
(***************************************************************************)
(* Flood-alert application (Prep-A.py): the risk scoring engine            *)
(* (normalize, calculate_iri, determine_risk_level), the three data        *)
(* sources of main() writing into st.session_state.data, and the temporary *)
(* files created by process_netcdf and by the report export.               *)
(*                                                                         *)
(* Numbers.  Python floats are modelled as exact rationals <<n, d>> in     *)
(* lowest terms with d > 0 (an int is <<n, 1>>).  Rounding of binary64     *)
(* arithmetic is therefore not modelled: every equality or bound below is  *)
(* one of real numbers.                                                    *)
(*                                                                         *)
(* Python dicts are functions; a missing key is a key outside the DOMAIN.  *)
(* A call either returns a value or raises an exception: Return / Raise.   *)
(***************************************************************************)
EXTENDS Integers, Sequences, FiniteSets, TLC

VARIABLES
    data,         \* st.session_state.data (persists across reruns)
    pc,           \* position of the current run of main()
    data_source,  \* the radio selection of the current run
    tmp_files,    \* number of temporary files of the program on disk
    errors,       \* st.error messages shown by the current run
    outcome,      \* the assessment the current run displayed, if any
    uncaught,     \* the exception that ended the current run ("none" otherwise)
    written,      \* history: the source branch that wrote the precipitation
                  \* fields during the current run ("none" when no branch did)
    call          \* a direct call of one engine function (unit specifications)

vars == <<data, pc, data_source, tmp_files, errors, outcome, uncaught, written, call>>

---------------------------------------------------------------------------
(* Exact rational arithmetic *)

Abs(x) == IF x < 0 THEN -x ELSE x

RECURSIVE GCD(_, _)
GCD(a, b) == IF b = 0 THEN a ELSE GCD(b, a % b)

\* n/d in lowest terms, d # 0
Rat(n, d) ==
    LET g == GCD(Abs(n), Abs(d))
        s == IF d < 0 THEN -1 ELSE 1
    IN  <<(s * n) \div g, (s * d) \div g>>

Int2Rat(n) == <<n, 1>>
Zero == <<0, 1>>
One == <<1, 1>>

RAdd(a, b) ==
    LET g == GCD(a[2], b[2])
        l == (a[2] \div g) * b[2]
    IN  Rat(a[1] * (l \div a[2]) + b[1] * (l \div b[2]), l)

RNeg(a) == <<-a[1], a[2]>>
RSub(a, b) == RAdd(a, RNeg(b))

RMul(a, b) ==
    LET x == Rat(a[1], b[2])
        y == Rat(b[1], a[2])
    IN  <<x[1] * y[1], x[2] * y[2]>>

\* b # 0
RDiv(a, b) == RMul(a, Rat(b[2], b[1]))

RLeq(a, b) == a[1] * b[2] <= b[1] * a[2]
RLt(a, b) == a[1] * b[2] < b[1] * a[2]
RGeq(a, b) == RLeq(b, a)

RECURSIVE RSum(_, _)
\* sum(f[k] for k in keys), starting from 0
RSum(f, keys) ==
    IF keys = {} THEN Zero
    ELSE LET k == CHOOSE x \in keys : TRUE
         IN  RAdd(f[k], RSum(f, keys \ {k}))

RECURSIVE SeqSum(_)
SeqSum(s) == IF s = <<>> THEN Zero ELSE RAdd(Head(s), SeqSum(Tail(s)))

RECURSIVE SeqMax(_)
\* max(s) for a non-empty sequence
SeqMax(s) ==
    IF Len(s) = 1 THEN s[1]
    ELSE LET m == SeqMax(Tail(s))
         IN  IF RLt(m, Head(s)) THEN Head(s) ELSE m

Return(v) == [kind |-> "return", value |-> v]
Raise(e) == [kind |-> "raise", exc |-> e]

EmptyDict == [k \in {} |-> 0]
Get(d, k, default) == IF k \in DOMAIN d THEN d[k] ELSE default

---------------------------------------------------------------------------
(* class RiskCalculator *)

\* a / b of two numbers: b = 0 raises
PyDiv(a, b) == IF b = Zero THEN Raise("ZeroDivisionError") ELSE Return(RDiv(a, b))

NormalizeClamped(val, vmin, vmax) ==
    IF vmax # vmin
    THEN LET r == RDiv(RSub(val, vmin), RSub(vmax, vmin))
         IN  Return(IF RLt(r, Zero) THEN Zero ELSE IF RLt(One, r) THEN One ELSE r)
    ELSE Return(Zero)

normalize(val, vmin, vmax) ==
    IF vmax # vmin
    THEN PyDiv(RSub(val, vmin), RSub(vmax, vmin))
    ELSE Return(Zero)

Keys == {"intensity", "duration", "accumulation", "humidity", "slope", "land_use"}
NormKey(k) ==
    CASE k = "intensity" -> "intensity_norm"
      [] k = "duration" -> "duration_norm"
      [] k = "accumulation" -> "accumulation_norm"
      [] k = "humidity" -> "humidity_norm"
      [] k = "slope" -> "slope_norm"
      [] k = "land_use" -> "land_use_norm"
NormKeys == {NormKey(k) : k \in Keys}

\* the six products of lines 86-91, added up
WeightedSum(nw, params) ==
    RSum([k \in Keys |-> RMul(nw[k], params[NormKey(k)])], Keys)

CalculateIriUnnormalized(params, weights) ==
    IF Keys \subseteq DOMAIN weights /\ NormKeys \subseteq DOMAIN params
    THEN Return(WeightedSum(weights, params))
    ELSE Raise("KeyError")

calculate_iri(params, weights) ==
    LET total_weight == RSum(weights, DOMAIN weights)
    IN  IF DOMAIN weights # {} /\ total_weight = Zero
        THEN Raise("ZeroDivisionError")       \* v/total_weight, line 83
        ELSE IF ~(Keys \subseteq DOMAIN weights /\ NormKeys \subseteq DOMAIN params)
        THEN Raise("KeyError")                \* a subscript of lines 86-91
        ELSE LET normalized_weights ==
                     [k \in DOMAIN weights |-> RDiv(weights[k], total_weight)]
             IN  Return(WeightedSum(normalized_weights, params))

DetermineRiskLevelOpenBounds(iri) ==
    IF RLt(<<7, 10>>, iri) THEN <<"high", "Risque Tres Eleve">>
    ELSE IF RLt(<<2, 5>>, iri) THEN <<"medium", "Risque Eleve">>
    ELSE IF RLt(<<1, 5>>, iri) THEN <<"low", "Risque Modere">>
    ELSE <<"none", "Risque Faible">>

determine_risk_level(iri) ==
    IF RGeq(iri, <<7, 10>>) THEN <<"high", "Risque Tres Eleve">>
    ELSE IF RGeq(iri, <<2, 5>>) THEN <<"medium", "Risque Eleve">>
    ELSE IF RGeq(iri, <<1, 5>>) THEN <<"low", "Risque Modere">>
    ELSE <<"none", "Risque Faible">>

---------------------------------------------------------------------------
(* Constants of the program *)

ForecastPeriods == 8     \* weather_data["list"][:8]
PeriodHours == 3         \* len(hourly_rain) * 3
GridWindowHours == 24    \* duration of the NetCDF branch

LandUses ==
    {"Urbain dense", "Urbain disperse", "Foret", "Savane", "Zone agricole",
     "Zone humide"}

land_use_factors ==
    [u \in LandUses |->
        CASE u = "Urbain dense" -> <<1, 1>>
          [] u = "Urbain disperse" -> <<4, 5>>
          [] u = "Zone agricole" -> <<3, 5>>
          [] u = "Savane" -> <<2, 5>>
          [] u = "Foret" -> <<1, 5>>
          [] u = "Zone humide" -> <<9, 10>>]

Weights(i, d, a, h, s, l) ==
    [k \in Keys |->
        CASE k = "intensity" -> i
          [] k = "duration" -> d
          [] k = "accumulation" -> a
          [] k = "humidity" -> h
          [] k = "slope" -> s
          [] k = "land_use" -> l]

InitialData ==
    [intensity |-> Zero, duration |-> Zero, accumulation |-> Zero,
     humidity |-> Int2Rat(50), slope |-> Int2Rat(10), land_use |-> "Urbain dense",
     weights |-> Weights(<<3, 10>>, <<1, 5>>, <<3, 20>>, <<3, 20>>, <<1, 10>>, <<1, 10>>)]

None == [none |-> TRUE]
\* bool(x) of None or of a dict
Truthy(x) == x # None /\ DOMAIN x # {}
\* bool(ds) of None or of an opened dataset: true iff it has data variables
DatasetTruthy(ds) == ds # None /\ DOMAIN ds.data_vars # {}

---------------------------------------------------------------------------
(* class DataProcessor *)

\* An uploaded file is described by what the library calls do with it:
\*   temp    whether NamedTemporaryFile(delete=False) creates the copy
\*   opens   whether write() and xr.open_dataset() succeed on it
\*   dataset the opened dataset: its data variables and its coordinates, each
\*           name -> [numeric, mean] (whether float(mean) succeeds, and its value)
\* The result carries the returned pair and whether a file was left on disk.
process_netcdf(file) ==
    IF ~file.temp
    THEN [ds |-> None, tmp_path |-> None, created |-> FALSE,
          error |-> {"Erreur de traitement du fichier NetCDF"}]
    ELSE IF ~file.opens
    THEN [ds |-> None, tmp_path |-> None, created |-> TRUE,
          error |-> {"Erreur de traitement du fichier NetCDF"}]
    ELSE [ds |-> file.dataset, tmp_path |-> [path |-> "tmp.nc"], created |-> TRUE,
          error |-> {}]

\* The response is a network failure, an error status, or a JSON body.
fetch_weather_data(response) ==
    IF response.status # "ok"
    THEN [json |-> None, error |-> {"Erreur API meteo"}]
    ELSE [json |-> response.body, error |-> {}]

---------------------------------------------------------------------------
(* main(): the "API meteo" analysis of the forecast list *)

Min(a, b) == IF a < b THEN a ELSE b

HourlyRainAllPeriods(list) ==
    [i \in 1..Len(list) |-> Get(Get(list[i], "rain", EmptyDict), "3h", Zero)]

hourly_rain(list) ==
    [i \in 1..Min(ForecastPeriods, Len(list)) |->
        Get(Get(list[i], "rain", EmptyDict), "3h", Zero)]

ForecastInputs(list) ==
    LET hr == hourly_rain(list)
    IN  [accumulation |-> SeqSum(hr),
         duration |-> Int2Rat(Len(hr) * PeriodHours),
         intensity |-> IF hr # <<>> THEN SeqMax(hr) ELSE Zero]

---------------------------------------------------------------------------
(* Inputs of a run: widget values, uploaded files, API responses *)

MaxTmpFiles == 1    \* temporary files left on disk that the model follows

Sources == {"Saisie manuelle", "Fichier NetCDF", "API meteo"}

IntensitySlider == {0, 100}
DurationSlider == {0, 72}
AccumulationSlider == {0, 500}
HumiditySlider == {0, 100}
SlopeSlider == {0, 100}

WeightSliders ==
    { Weights(Zero, Zero, Zero, Zero, Zero, Zero),
      Weights(<<3, 10>>, <<3, 10>>, <<3, 20>>, <<3, 20>>, <<1, 10>>, <<1, 10>>),
      Weights(Zero, Zero, One, Zero, Zero, Zero) }

Var(numeric, mean) == [numeric |-> numeric, mean |-> mean]
Dataset(data_vars, coords) == [data_vars |-> data_vars, coords |-> coords]
File(temp, opens, dataset) == [temp |-> temp, opens |-> opens, dataset |-> dataset]

Uploads ==
    { File(FALSE, FALSE, None),
      File(TRUE, FALSE, None),
      File(TRUE, TRUE, Dataset(EmptyDict, "lat" :> Var(TRUE, <<4, 1>>))),
      File(TRUE, TRUE, Dataset("precip" :> Var(TRUE, <<240, 1>>) @@
                               "station" :> Var(FALSE, Zero),
                               "lat" :> Var(TRUE, <<4, 1>>))),
      File(TRUE, TRUE, Dataset("precip" :> Var(TRUE, <<1200, 1>>), EmptyDict)),
      File(TRUE, TRUE, Dataset("t2m" :> Var(TRUE, <<-24, 1>>), EmptyDict)) }

NoRain == EmptyDict
Rain(mm) == "rain" :> ("3h" :> mm)
Repeat(e, n) == [i \in 1..n |-> e]

Responses ==
    { [status |-> "network_error", body |-> None],
      [status |-> "http_error", body |-> None],
      [status |-> "ok", body |-> EmptyDict],
      [status |-> "ok", body |-> "cod" :> "200"],
      [status |-> "ok", body |-> [list |-> <<>>]],
      [status |-> "ok", body |-> [list |-> <<NoRain, Rain(<<5, 2>>)>>]],
      [status |-> "ok", body |-> [list |-> Repeat(Rain(<<70, 1>>), ForecastPeriods + 1)]] }

NoOutcome == [kind |-> "none"]

---------------------------------------------------------------------------
(* main(): one run per widget interaction *)

\* lines 213-230: the session's data on its first run
Init ==
    /\ data = InitialData
    /\ pc = "start"
    /\ data_source = "Saisie manuelle"
    /\ tmp_files = 0
    /\ errors = {}
    /\ outcome = NoOutcome
    /\ uncaught = "none"
    /\ written = "none"
    /\ call = [fn |-> "none"]

\* a rerun starts: the radio gives the source
Rerun ==
    /\ pc \in {"start", "done"}
    /\ \E src \in Sources : data_source' = src
    /\ pc' = "source"
    /\ errors' = {}
    /\ outcome' = NoOutcome
    /\ uncaught' = "none"
    /\ written' = "none"
    /\ UNCHANGED <<data, tmp_files, call>>

ManualEntry ==
    /\ pc = "source"
    /\ data_source = "Saisie manuelle"
    /\ \E i \in IntensitySlider, d \in DurationSlider, a \in AccumulationSlider :
          data' = [data EXCEPT !.intensity = Int2Rat(i), !.duration = Int2Rat(d),
                               !.accumulation = Int2Rat(a)]
    /\ written' = data_source
    /\ pc' = "terrain"
    /\ UNCHANGED <<data_source, tmp_files, errors, outcome, uncaught, call>>

\* lines 270-281 on the selected variable
GridInputs(precipitation) ==
    LET accumulation == precipitation.mean
        duration == Int2Rat(GridWindowHours)
    IN  [accumulation |-> accumulation, duration |-> duration,
         intensity |-> RDiv(accumulation, duration)]

NetCDFUpload ==
    /\ pc = "source"
    /\ data_source = "Fichier NetCDF"
    /\ pc' = "terrain"
    /\ UNCHANGED <<data_source, outcome, uncaught, call>>
    /\ \/ \* no file uploaded
          UNCHANGED <<data, tmp_files, errors, written>>
       \/ \E uploaded_file \in Uploads :
            LET r == process_netcdf(uploaded_file) IN
            IF DatasetTruthy(r.ds)
            THEN \E selected_var \in DOMAIN r.ds.data_vars \cup DOMAIN r.ds.coords :
                   LET precipitation == (r.ds.data_vars @@ r.ds.coords)[selected_var] IN
                   /\ IF precipitation.numeric
                      THEN LET g == GridInputs(precipitation) IN
                           /\ data' = [data EXCEPT !.accumulation = g.accumulation,
                                                   !.duration = g.duration,
                                                   !.intensity = g.intensity]
                           /\ written' = data_source
                           /\ errors' = errors
                      ELSE /\ errors' = errors \cup {"Erreur de traitement"}
                           /\ UNCHANGED <<data, written>>
                   /\ tmp_files' = tmp_files     \* created, then os.unlink
            ELSE /\ r.created => tmp_files < MaxTmpFiles
                 /\ tmp_files' = tmp_files + (IF r.created THEN 1 ELSE 0)
                 /\ errors' = errors \cup r.error
                 /\ UNCHANGED <<data, written>>

ApiFetch ==
    /\ pc = "source"
    /\ data_source = "API meteo"
    /\ UNCHANGED <<data_source, tmp_files, outcome, call>>
    /\ \/ \* empty api_key
          /\ pc' = "terrain"
          /\ UNCHANGED <<data, errors, written, uncaught>>
       \/ \E response \in Responses :
            LET r == fetch_weather_data(response)
                weather_data == r.json
            IN
            IF ~Truthy(weather_data)
            THEN /\ errors' = errors \cup r.error
                 /\ pc' = "terrain"
                 /\ UNCHANGED <<data, written, uncaught>>
            ELSE IF "list" \notin DOMAIN weather_data
            THEN /\ uncaught' = "KeyError"
                 /\ pc' = "done"
                 /\ UNCHANGED <<data, errors, written>>
            ELSE LET f == ForecastInputs(weather_data["list"]) IN
                 /\ data' = [data EXCEPT !.accumulation = f.accumulation,
                                         !.duration = f.duration,
                                         !.intensity = f.intensity]
                 /\ written' = data_source
                 /\ pc' = "terrain"
                 /\ UNCHANGED <<errors, uncaught>>

Terrain ==
    /\ pc = "terrain"
    /\ \E land_use \in LandUses, humidity \in HumiditySlider, slope \in SlopeSlider :
          data' = [data EXCEPT !.land_use = land_use, !.humidity = Int2Rat(humidity),
                               !.slope = Int2Rat(slope)]
    /\ pc' = "weights"
    /\ UNCHANGED <<data_source, tmp_files, errors, outcome, uncaught, written, call>>

Ponderations ==
    /\ pc = "weights"
    /\ \E w \in WeightSliders : data' = [data EXCEPT !.weights = w]
    /\ pc' = "assess"
    /\ UNCHANGED <<data_source, tmp_files, errors, outcome, uncaught, written, call>>

\* lines 335-342; the bounds are constants with vmin # vmax, so no call raises
Params(d) ==
    "intensity_norm" :> normalize(d.intensity, Zero, Int2Rat(100)).value @@
    "duration_norm" :> normalize(d.duration, Zero, Int2Rat(72)).value @@
    "accumulation_norm" :> normalize(d.accumulation, Zero, Int2Rat(500)).value @@
    "humidity_norm" :> normalize(d.humidity, Zero, Int2Rat(100)).value @@
    "slope_norm" :> normalize(d.slope, Zero, Int2Rat(100)).value @@
    "land_use_norm" :> land_use_factors[d.land_use]

Assess ==
    /\ pc = "assess"
    /\ LET r == calculate_iri(Params(data), data.weights) IN
       IF r.kind = "raise"
       THEN /\ uncaught' = r.exc
            /\ pc' = "done"
            /\ UNCHANGED outcome
       ELSE LET level == determine_risk_level(r.value) IN
            /\ outcome' = [kind |-> "assessment", iri |-> r.value,
                           risk_level |-> level[1], risk_label |-> level[2]]
            /\ pc' = "report"
            /\ UNCHANGED uncaught
    /\ UNCHANGED <<data, data_source, tmp_files, errors, written, call>>

Report ==
    /\ pc = "report"
    /\ pc' = "done"
    /\ UNCHANGED <<data, data_source, errors, outcome, written, call>>
    /\ \/ \* button not pressed
          UNCHANGED <<tmp_files, uncaught>>
       \/ \* create_pdf_report raises: no file yet
          /\ uncaught' = "Exception"
          /\ UNCHANGED tmp_files
       \/ \* pdf.output or the read raises: os.unlink is not reached
          /\ tmp_files < MaxTmpFiles
          /\ tmp_files' = tmp_files + 1
          /\ uncaught' = "Exception"
       \/ \* written, read back, unlinked
          UNCHANGED <<tmp_files, uncaught>>

Next ==
    \/ Rerun
    \/ ManualEntry
    \/ NetCDFUpload
    \/ ApiFetch
    \/ Terrain
    \/ Ponderations
    \/ Assess
    \/ Report

Spec == Init /\ [][Next]_vars

---------------------------------------------------------------------------
(* Direct calls of the engine functions: the inputs are drawn by the       *)
(* initial state, the one action applies the function.                     *)

AppIdle ==
    /\ data = InitialData
    /\ pc = "start"
    /\ data_source = "Saisie manuelle"
    /\ tmp_files = 0
    /\ errors = {}
    /\ outcome = NoOutcome
    /\ uncaught = "none"
    /\ written = "none"

AppUnchanged ==
    UNCHANGED <<data, pc, data_source, tmp_files, errors, outcome, uncaught, written>>

(* determine_risk_level *)

MaxIriSteps == 20    \* the grid of twentieths reaches from -MaxIriSteps/20 to 1 + MaxIriSteps/20

IriSamples ==
    {Rat(n, 20) : n \in -MaxIriSteps..(20 + MaxIriSteps)}
        \cup {<<6999, 10000>>, <<3999, 10000>>, <<1999, 10000>>,
              <<7001, 10000>>, <<4001, 10000>>, <<2001, 10000>>}

InitClassify ==
    /\ AppIdle
    /\ \E iri \in IriSamples :
          call = [fn |-> "determine_risk_level", iri |-> iri, returned |-> FALSE]

CallDetermineRiskLevel ==
    /\ call.fn = "determine_risk_level"
    /\ ~call.returned
    /\ call' = [fn |-> call.fn, iri |-> call.iri, returned |-> TRUE,
                ret |-> determine_risk_level(call.iri)]
    /\ AppUnchanged

SpecClassify == InitClassify /\ [][CallDetermineRiskLevel]_vars

(* normalize *)

MaxNorm == 4    \* values, minima and maxima range over the halves in -MaxNorm/2 .. MaxNorm/2

NormSamples == {Rat(n, 2) : n \in -MaxNorm..MaxNorm}

InitNormalize ==
    /\ AppIdle
    /\ \E val \in NormSamples, vmin \in NormSamples, vmax \in NormSamples :
          call = [fn |-> "normalize", val |-> val, vmin |-> vmin, vmax |-> vmax,
                  returned |-> FALSE]

CallNormalize ==
    /\ call.fn = "normalize"
    /\ ~call.returned
    /\ call' = [fn |-> call.fn, val |-> call.val, vmin |-> call.vmin,
                vmax |-> call.vmax, returned |-> TRUE,
                ret |-> normalize(call.val, call.vmin, call.vmax)]
    /\ AppUnchanged

SpecNormalize == InitNormalize /\ [][CallNormalize]_vars

(* the forecast analysis of the "API meteo" branch *)

MaxPayloadLen == 9    \* longest forecast list drawn (one more than the 8 periods used)

\* a period without rainfall lacks either the "rain" field or its "3h" field
ForecastEntries ==
    { {NoRain, Rain(<<5, 2>>), Rain(<<70, 1>>)},
      {"rain" :> EmptyDict, Rain(<<5, 2>>), Rain(<<70, 1>>)} }

ForecastLists ==
    UNION {[1..n -> entries] : n \in 0..MaxPayloadLen, entries \in ForecastEntries}

InitForecast ==
    /\ AppIdle
    /\ \E list \in ForecastLists :
          call = [fn |-> "forecast", list |-> list, returned |-> FALSE]

CallForecast ==
    /\ call.fn = "forecast"
    /\ ~call.returned
    /\ call' = [fn |-> call.fn, list |-> call.list, returned |-> TRUE,
                ret |-> ForecastInputs(call.list)]
    /\ AppUnchanged

SpecForecast == InitForecast /\ [][CallForecast]_vars

(* calculate_iri *)

ParamSamples ==
    { [k \in NormKeys |-> Zero],
      [k \in NormKeys |-> One],
      "intensity_norm" :> <<3, 10>> @@ "duration_norm" :> <<1, 12>> @@
      "accumulation_norm" :> <<9, 50>> @@ "humidity_norm" :> <<1, 2>> @@
      "slope_norm" :> <<1, 10>> @@ "land_use_norm" :> One,
      "intensity_norm" :> <<6, 5>> @@ "duration_norm" :> <<1, 3>> @@
      "accumulation_norm" :> <<-1, 5>> @@ "humidity_norm" :> Zero @@
      "slope_norm" :> One @@ "land_use_norm" :> <<2, 5>> }

WeightSamples == [Keys -> {Zero, <<3, 10>>, One}]

Scalars == {<<3, 1>>, <<1, 2>>}

Without(d, k) == [x \in DOMAIN d \ {k} |-> d[x]]

\* maps that lack one of the six keys or carry a seventh
BaseParams == [k \in NormKeys |-> <<1, 2>>]
BaseWeights == Weights(<<3, 10>>, <<1, 5>>, <<3, 20>>, <<3, 20>>, <<1, 10>>, <<1, 10>>)
ParamKeyVariants ==
    {Without(BaseParams, k) : k \in NormKeys} \cup {BaseParams @@ "extra_norm" :> One}
WeightKeyVariants ==
    {Without(BaseWeights, k) : k \in Keys}
        \cup {BaseWeights @@ "extra" :> One, BaseWeights @@ "extra" :> Zero, EmptyDict}

IriCall(params, weights, k) ==
    [fn |-> "calculate_iri", params |-> params, weights |-> weights, k |-> k,
     returned |-> FALSE]

InitCalc ==
    /\ AppIdle
    /\ \/ \E params \in ParamSamples, weights \in WeightSamples, k \in Scalars :
             call = IriCall(params, weights, k)
       \/ \E params \in ParamKeyVariants \cup {BaseParams},
             weights \in WeightKeyVariants \cup {BaseWeights} :
             call = IriCall(params, weights, One)

Scaled(k, weights) == [x \in DOMAIN weights |-> RMul(k, weights[x])]

\* calculate_iri(params, weights), and calculate_iri(params, k * weights) beside it
CallCalculateIri ==
    /\ call.fn = "calculate_iri"
    /\ ~call.returned
    /\ call' = [fn |-> call.fn, params |-> call.params, weights |-> call.weights,
                k |-> call.k, returned |-> TRUE,
                ret |-> calculate_iri(call.params, call.weights),
                scaled |-> calculate_iri(call.params, Scaled(call.k, call.weights))]
    /\ AppUnchanged

SpecCalc == InitCalc /\ [][CallCalculateIri]_vars

---------------------------------------------------------------------------
(* Properties *)

\* C1: for every IRI, below 0 and above 1 included, determine_risk_level returns
\* exactly one tier, the highest whose lower bound the IRI meets: high iff
\* iri >= 0.7, medium iff 0.4 <= iri < 0.7, low iff 0.2 <= iri < 0.4, none iff
\* iri < 0.2 (the boundaries belong to the higher tier).
C1_TierIsHighestLowerBoundMet ==
    (call.fn = "determine_risk_level" /\ call.returned) =>
        LET n == call.iri[1]
            d == call.iri[2]
            tier == call.ret[1]
        IN  /\ tier \in {"high", "medium", "low", "none"}
            /\ (tier = "high") <=> (10 * n >= 7 * d)
            /\ (tier = "medium") <=> (10 * n >= 4 * d /\ 10 * n < 7 * d)
            /\ (tier = "low") <=> (10 * n >= 2 * d /\ 10 * n < 4 * d)
            /\ (tier = "none") <=> (10 * n < 2 * d)

C1_Witness ==
    /\ call.fn = "determine_risk_level"
    /\ call.returned
    /\ call.iri = <<7, 10>>
    /\ call.ret[1] = "high"

\* C2 (as claimed): when a source read fails in a run (the forecast fetch, the
\* opening of the grid file, or the reduction of the selected variable), the run
\* ends with the failure and displays no IRI and no tier.
C2_FailedReadProducesNoAssessment ==
    (pc \in {"report", "done"} /\ errors # {}) =>
        (outcome.kind = "none" /\ uncaught # "none")

\* C3 (as claimed): the precipitation fields an assessment is computed from were
\* written during the same run by the branch of the selected source.
C3_PrecipitationWrittenByCurrentSource ==
    outcome.kind = "assessment" => written = data_source

\* C4 (as claimed): with the six weight sliders at 0.0 the assessment step fails
\* with InvalidConfigurationError and displays no index.
C4_ZeroSumWeightsRaiseInvalidConfiguration ==
    [][(pc = "assess" /\ RSum(data.weights, Keys) = Zero) =>
          (uncaught' = "InvalidConfigurationError" /\ outcome'.kind = "none")]_vars

\* C5 (as claimed): when the weight map or the parameter map lacks one of the six
\* keys or carries a key outside the six, calculate_iri fails and returns no
\* index (the claim names the failure MissingParameterError).
C5_ExactlySixKeysOrFailure ==
    (/\ call.fn = "calculate_iri"
     /\ call.returned
     /\ (DOMAIN call.weights # Keys \/ DOMAIN call.params # NormKeys)) =>
        call.ret.kind = "raise"

EntryRain(e) ==
    IF "rain" \in DOMAIN e /\ "3h" \in DOMAIN e["rain"] THEN e["rain"]["3h"] ELSE Zero

\* C6: for every forecast list, with n = min(8, length): accumulation is the sum
\* of the rainfall of the first n entries, duration is 3 * n, intensity is the
\* largest rainfall among them (0 when n = 0); an entry without a rainfall
\* field counts as 0.
C6_ForecastSumsFirstEightPeriods ==
    (call.fn = "forecast" /\ call.returned) =>
        LET list == call.list
            n == IF Len(list) < 8 THEN Len(list) ELSE 8
            rains == {EntryRain(list[i]) : i \in 1..n}
            times(v) == Cardinality({i \in 1..n : EntryRain(list[i]) = v})
        IN  /\ call.ret.duration = <<3 * n, 1>>
            /\ call.ret.accumulation =
                   RSum([v \in rains |-> RMul(v, Int2Rat(times(v)))], rains)
            /\ IF n = 0 THEN call.ret.intensity = Zero
               ELSE /\ call.ret.intensity \in rains
                    /\ \A v \in rains : RLeq(v, call.ret.intensity)

C6_Witness ==
    /\ call.fn = "forecast"
    /\ call.returned
    /\ Len(call.list) = 9
    /\ call.list[9] = Rain(<<70, 1>>)
    /\ call.list[1] = NoRain
    /\ \A i \in 2..8 : call.list[i] = Rain(<<5, 2>>)
    /\ call.ret = [accumulation |-> <<35, 2>>, duration |-> <<24, 1>>,
                   intensity |-> <<5, 2>>]

InBounds(d) ==
    /\ RLeq(Zero, d.intensity) /\ RLeq(d.intensity, <<100, 1>>)
    /\ RLeq(Zero, d.duration) /\ RLeq(d.duration, <<72, 1>>)
    /\ RLeq(Zero, d.accumulation) /\ RLeq(d.accumulation, <<500, 1>>)

InUnitInterval(x) == RLeq(Zero, x) /\ RLeq(x, One)

\* C7 (as claimed): every assessment, from any of the three sources, has its IRI
\* in [0,1].
C7_EveryAssessmentInUnitInterval ==
    outcome.kind = "assessment" => InUnitInterval(outcome.iri)

\* C7 (amended): an assessment computed from an intensity in [0,100], a duration
\* in [0,72] and an accumulation in [0,500] has its IRI in [0,1]; the values
\* the manual sliders write are always within these bounds.
C7_InBoundsAssessmentInUnitInterval ==
    outcome.kind = "assessment" =>
        /\ written = "Saisie manuelle" => InBounds(data)
        /\ InBounds(data) => InUnitInterval(outcome.iri)

C7_Witness ==
    /\ outcome.kind = "assessment"
    /\ written = "Fichier NetCDF"
    /\ InBounds(data)
    /\ data.accumulation = <<240, 1>>
    /\ outcome.iri = <<12, 25>>

C9_NormalizeTotalAndUnclamped ==
    (call.fn = "normalize" /\ call.returned) =>
        LET val == call.val
            vmin == call.vmin
            vmax == call.vmax
            r == call.ret
        IN  /\ r.kind = "return"
            /\ vmin = vmax => r.value = Zero
            /\ RLt(vmin, vmax) =>
                  /\ RMul(r.value, RSub(vmax, vmin)) = RSub(val, vmin)
                  /\ val = vmin => r.value = Zero
                  /\ val = vmax => r.value = One
                  /\ RLt(val, vmin) => RLt(r.value, Zero)
                  /\ RLt(vmax, val) => RLt(One, r.value)
                  /\ \A w \in NormSamples :
                        RLeq(w, val) => RLeq(normalize(w, vmin, vmax).value, r.value)

C9_Witness ==
    /\ call.fn = "normalize"
    /\ call.returned
    /\ call.val = <<2, 1>>
    /\ call.vmin = <<-1, 2>>
    /\ call.vmax = <<1, 2>>
    /\ call.ret = Return(<<5, 2>>)

\* C10 (as claimed): when a run has ended, every temporary file the program
\* created has been deleted.
C10_NoTemporaryFileRemains ==
    pc = "done" => tmp_files = 0

====
